---- MODULE Spec2Model ----
(***************************************************************************)
(* A model of the DirectFB surface backend of cairo                        *)
(* (src/cairo-directfb-surface.c): one cairo_dfb_surface_t wrapping one    *)
(* IDirectFBSurface, the operations of its backend table, and a record of  *)
(* the hardware calls each operation issues.                               *)
(***************************************************************************)
EXTENDS Integers, Sequences, FiniteSets, TLC

(***************************************************************************)
(* Bounds of the model.                                                    *)
(***************************************************************************)
\* pixel views (pixman images) created over the life of one adapter
MaxViews == 2
\* images handed out by map_to_image and not yet given back by unmap_image
MaxOutstanding == 2

(***************************************************************************)
(* Enumerations of the cairo and DirectFB APIs.                            *)
(***************************************************************************)
SupportedOperators ==
    {"CLEAR", "SOURCE", "OVER", "IN", "OUT", "ATOP", "DEST", "DEST_OVER",
     "DEST_IN", "DEST_OUT", "DEST_ATOP", "XOR", "ADD"}

UnsupportedOperators ==
    {"SATURATE", "MULTIPLY", "SCREEN", "OVERLAY", "DARKEN", "LIGHTEN",
     "COLOR_DODGE", "COLOR_BURN", "HARD_LIGHT", "SOFT_LIGHT", "DIFFERENCE",
     "EXCLUSION", "HSL_HUE", "HSL_SATURATION", "HSL_COLOR", "HSL_LUMINOSITY"}

\* every value of cairo_operator_t
Operators == SupportedOperators \cup UnsupportedOperators

\* The objects hardware calls are issued on: "dfb_surface" is the wrapped
\* surface, "buffer" the temporary upload surface of an image fill,
\* "similar" the buffer create_similar creates, "dfb" the IDirectFB.

\* the calls that draw on the hardware surface, and those that draw or upload
NativeDraws == {"FillRectangle", "Blit", "TileBlit"}
DrawOrUpload == {"SetColor", "FillRectangle", "Write", "Blit", "TileBlit"}

\* one call on the DirectFB API: the method, the object, the arguments
HwCall(name, h, a) == [call |-> name, h |-> h, a |-> a]

CallNames(calls) == {calls[i].call : i \in 1..Len(calls)}

\* the calls of a sequence that have the method name and the object h
CallsOf(calls, name, h) ==
    {i \in 1..Len(calls) : calls[i].call = name /\ calls[i].h = h}

Abs(n) == IF n < 0 THEN -n ELSE n

(***************************************************************************)
(* Format and operator tables.                                             *)
(***************************************************************************)
directfb_to_pixman_format(format) ==
    CASE format = "DSPF_ARGB1555" -> "PIXMAN_a1r5g5b5"
      [] format = "DSPF_RGB16"    -> "PIXMAN_r5g6b5"
      [] format = "DSPF_RGB24"    -> "PIXMAN_r8g8b8"
      [] format = "DSPF_RGB32"    -> "PIXMAN_x8r8g8b8"
      [] format = "DSPF_ARGB"     -> "PIXMAN_a8r8g8b8"
      [] format = "DSPF_A8"       -> "PIXMAN_a8"
      [] format = "DSPF_YUY2"     -> "PIXMAN_yuy2"
      [] format = "DSPF_RGB332"   -> "PIXMAN_r3g3b2"
      [] format = "DSPF_YV12"     -> "PIXMAN_yv12"
      [] format = "DSPF_ARGB4444" -> "PIXMAN_a4r4g4b4"
      [] format = "DSPF_A4"       -> "PIXMAN_a4"
      [] format = "DSPF_RGB444"   -> "PIXMAN_x4r4g4b4"
      [] format = "DSPF_RGB555"   -> "PIXMAN_x1r5g5b5"
      [] format = "DSPF_BGR555"   -> "PIXMAN_x1b5g5r5"
      [] OTHER                    -> "0"

\* pixman: every format code can be a destination except the YUV ones and 0
pixman_format_supported_destination(pixman_format) ==
    pixman_format \notin {"0", "PIXMAN_yuy2", "PIXMAN_yv12"}

\* the supported test with saturate taken for a Porter-Duff operator
is_op_supported_with_saturate(operator) ==
    operator \in {"CLEAR", "SOURCE", "OVER", "IN", "OUT", "ATOP", "DEST",
                  "DEST_OVER", "DEST_IN", "DEST_OUT", "DEST_ATOP", "XOR",
                  "ADD", "SATURATE"}

cairo_dfb_is_op_supported(operator) ==
    operator \in {"CLEAR", "SOURCE", "OVER", "IN", "OUT", "ATOP", "DEST",
                  "DEST_OVER", "DEST_IN", "DEST_OUT", "DEST_ATOP", "XOR",
                  "ADD"}

cairo_operator_to_dfb_porter_duff(operator) ==
    CASE operator = "CLEAR"     -> "DSPD_CLEAR"
      [] operator = "SOURCE"    -> "DSPD_SRC"
      [] operator = "OVER"      -> "DSPD_SRC_OVER"
      [] operator = "IN"        -> "DSPD_SRC_IN"
      [] operator = "OUT"       -> "DSPD_SRC_OUT"
      [] operator = "ATOP"      -> "DSPD_SRC_ATOP"
      [] operator = "DEST"      -> "DSPD_DST"
      [] operator = "DEST_OVER" -> "DSPD_DST_OVER"
      [] operator = "DEST_IN"   -> "DSPD_DST_IN"
      [] operator = "DEST_OUT"  -> "DSPD_DST_OUT"
      [] operator = "DEST_ATOP" -> "DSPD_DST_ATOP"
      [] operator = "XOR"       -> "DSPD_XOR"
      [] operator = "ADD"       -> "DSPD_ADD"
      [] OTHER                  -> "DSPD_NONE"

\* the blend pair of an operator: ok is the function's return value, the
\* pair is what it stores through ret_srcblend and ret_dstblend
Blend(s, d) == [ok |-> TRUE, srcblend |-> s, dstblend |-> d]

\* the blend table with the pair of over for unpremultiplied colors
get_operator_unpremultiplied_over(operator) ==
    CASE operator = "CLEAR"     -> Blend("DSBF_ZERO", "DSBF_ZERO")
      [] operator = "SOURCE"    -> Blend("DSBF_ONE", "DSBF_ZERO")
      [] operator = "OVER"      -> Blend("DSBF_SRCALPHA", "DSBF_INVSRCALPHA")
      [] operator = "IN"        -> Blend("DSBF_DESTALPHA", "DSBF_ZERO")
      [] operator = "OUT"       -> Blend("DSBF_INVDESTALPHA", "DSBF_ZERO")
      [] operator = "ATOP"      -> Blend("DSBF_DESTALPHA", "DSBF_INVSRCALPHA")
      [] operator = "DEST"      -> Blend("DSBF_ZERO", "DSBF_ONE")
      [] operator = "DEST_OVER" -> Blend("DSBF_INVDESTALPHA", "DSBF_ONE")
      [] operator = "DEST_IN"   -> Blend("DSBF_ZERO", "DSBF_SRCALPHA")
      [] operator = "DEST_OUT"  -> Blend("DSBF_ZERO", "DSBF_INVSRCALPHA")
      [] operator = "DEST_ATOP" -> Blend("DSBF_INVDESTALPHA", "DSBF_SRCALPHA")
      [] operator = "XOR"       -> Blend("DSBF_INVDESTALPHA", "DSBF_INVSRCALPHA")
      [] operator = "ADD"       -> Blend("DSBF_ONE", "DSBF_ONE")
      [] OTHER -> [ok |-> FALSE, srcblend |-> "DSBF_ONE", dstblend |-> "DSBF_ZERO"]

directfb_get_operator(operator) ==
    CASE operator = "CLEAR"     -> Blend("DSBF_ZERO", "DSBF_ZERO")
      [] operator = "SOURCE"    -> Blend("DSBF_ONE", "DSBF_ZERO")
      [] operator = "OVER"      -> Blend("DSBF_ONE", "DSBF_INVSRCALPHA")
      [] operator = "IN"        -> Blend("DSBF_DESTALPHA", "DSBF_ZERO")
      [] operator = "OUT"       -> Blend("DSBF_INVDESTALPHA", "DSBF_ZERO")
      [] operator = "ATOP"      -> Blend("DSBF_DESTALPHA", "DSBF_INVSRCALPHA")
      [] operator = "DEST"      -> Blend("DSBF_ZERO", "DSBF_ONE")
      [] operator = "DEST_OVER" -> Blend("DSBF_INVDESTALPHA", "DSBF_ONE")
      [] operator = "DEST_IN"   -> Blend("DSBF_ZERO", "DSBF_SRCALPHA")
      [] operator = "DEST_OUT"  -> Blend("DSBF_ZERO", "DSBF_INVSRCALPHA")
      [] operator = "DEST_ATOP" -> Blend("DSBF_INVDESTALPHA", "DSBF_SRCALPHA")
      [] operator = "XOR"       -> Blend("DSBF_INVDESTALPHA", "DSBF_INVSRCALPHA")
      [] operator = "ADD"       -> Blend("DSBF_ONE", "DSBF_ONE")
      [] OTHER -> [ok |-> FALSE, srcblend |-> "DSBF_ONE", dstblend |-> "DSBF_ZERO"]

dfb_format_from_cairo_format(fmt) ==
    CASE fmt = "CAIRO_FORMAT_ARGB32"    -> "DSPF_ARGB"
      [] fmt = "CAIRO_FORMAT_RGB24"     -> "DSPF_RGB24"
      [] fmt = "CAIRO_FORMAT_A8"        -> "DSPF_A8"
      [] fmt = "CAIRO_FORMAT_A1"        -> "DSPF_A1"
      [] fmt = "CAIRO_FORMAT_RGB16_565" -> "DSPF_RGB16"
      [] OTHER                          -> "DSPF_ARGB"

(***************************************************************************)
(* Geometry.  Coordinates of a path are cairo_fixed_t values with 8        *)
(* fractional bits.                                                        *)
(***************************************************************************)
\* _cairo_fixed_integer_round: nearest integer, (f + 1/2) >> 8
cairo_fixed_integer_round(f) == (f + 128) \div 256

\* a double converted to int: truncation toward zero, the double being the
\* fixed-point value n / 256
double_to_int(n) == IF n >= 0 THEN n \div 256 ELSE -((-n) \div 256)

\* _cairo_path_fixed_is_rectangle: the path is one closed axis-aligned
\* rectangle; when it is, its box is path.box with p1 <= p2
cairo_path_fixed_is_rectangle(path) == path.kind = "rectangle"

\* a rectangle given by its two corners instead of corner and extent
dfb_rect_from_corners(box) ==
    [x |-> cairo_fixed_integer_round(box.p1x),
     y |-> cairo_fixed_integer_round(box.p1y),
     w |-> Abs(cairo_fixed_integer_round(box.p2x)),
     h |-> Abs(cairo_fixed_integer_round(box.p2y))]

dfb_rect_from_cairo_box(box) ==
    LET x == cairo_fixed_integer_round(box.p1x)
        y == cairo_fixed_integer_round(box.p1y)
    IN  [x |-> x, y |-> y,
         w |-> Abs(cairo_fixed_integer_round(box.p2x) - x),
         h |-> Abs(cairo_fixed_integer_round(box.p2y) - y)]

\* the pattern matrices of the model are translations by whole pixels
dfb_rect_from_cairo_box_translate(box, matrix) ==
    LET x1 == box.p1x + 256 * matrix.x0
        y1 == box.p1y + 256 * matrix.y0
        x2 == box.p2x + 256 * matrix.x0
        y2 == box.p2y + 256 * matrix.y0
    IN  [x |-> double_to_int(x1), y |-> double_to_int(y1),
         w |-> Abs(double_to_int(x2 - x1)),
         h |-> Abs(double_to_int(y2 - y1))]

\* CAIRO_COLOR_IS_OPAQUE: the color's alpha is fully opaque
COLOR_IS_OPAQUE(color) == color.alpha_short = 65535

\* _cairo_clip_is_all_clipped
cairo_clip_is_all_clipped(clip) == clip.all_clipped

(***************************************************************************)
(* The state.                                                              *)
(***************************************************************************)
VARIABLES
    life,         \* "none" before create, "live", "finished" after finish,
                  \* "error" when create failed, "aborted" after an assert
    ds,           \* the cairo_dfb_surface_t: image.pixman_image (0 is NULL,
                  \* else the identity of the pixel view), image.pixman_format,
                  \* image.width, image.height, blit_premultiplied, clipped
    hw,           \* the wrapped IDirectFBSurface: pixel format, capabilities,
                  \* reference count, locks held (Lock minus Unlock), clip
    views,        \* pixel views created so far
    outstanding,  \* images handed out by map_to_image, not yet unmapped
    last          \* the last operation: its name, arguments, the state it
                  \* started in, the hardware calls it issued, its result

vars == <<life, ds, hw, views, outstanding, last>>

\* the record calloc returns
NullSurface ==
    [pixman_image |-> 0, pixman_format |-> "0", width |-> 0, height |-> 0,
     blit_premultiplied |-> FALSE, clipped |-> FALSE]

\* what the operations return: the adapter and the hardware after the call,
\* the hardware calls in order, the status, the operation's own outputs
Result(d, w, calls, ret, out) ==
    [ds |-> d, hw |-> w, calls |-> calls, ret |-> ret, out |-> out]

NoOut == [kind |-> "none"]

Mapped(d) == d.pixman_image # 0

(***************************************************************************)
(* Construction and teardown.                                              *)
(***************************************************************************)
\* create taking its reference before it looks at the format
create_addref_first(h, w, callocOk) ==
    LET queries == <<HwCall("AddRef", h, <<>>),
                     HwCall("GetPixelFormat", h, <<>>),
                     HwCall("GetSize", h, <<>>)>>
        pixman_format == directfb_to_pixman_format(w.format)
        held == [w EXCEPT !.refs = @ + 1]
    IN  IF ~pixman_format_supported_destination(pixman_format)
        THEN Result(NullSurface, held, queries, "INVALID_FORMAT", NoOut)
        ELSE IF ~callocOk
        THEN Result(NullSurface, held, queries, "NO_MEMORY", NoOut)
        ELSE Result([pixman_image |-> 0,
                     pixman_format |-> pixman_format,
                     width |-> w.width, height |-> w.height,
                     blit_premultiplied |-> w.premultiplied,
                     clipped |-> FALSE],
                    held,
                    queries \o <<HwCall("GetCapabilities", h, <<>>)>>,
                    "SUCCESS", NoOut)

\* cairo_directfb_surface_create on the IDirectFBSurface h whose state is w
cairo_directfb_surface_create(h, w, callocOk) ==
    LET queries == <<HwCall("GetPixelFormat", h, <<>>),
                     HwCall("GetSize", h, <<>>)>>
        pixman_format == directfb_to_pixman_format(w.format)
    IN  IF ~pixman_format_supported_destination(pixman_format)
        THEN Result(NullSurface, w, queries, "INVALID_FORMAT", NoOut)
        ELSE IF ~callocOk
        THEN Result(NullSurface, w, queries, "NO_MEMORY", NoOut)
        ELSE Result([pixman_image |-> 0,
                     pixman_format |-> pixman_format,
                     width |-> w.width, height |-> w.height,
                     blit_premultiplied |-> w.premultiplied,
                     clipped |-> FALSE],
                    [w EXCEPT !.refs = @ + 1],
                    queries \o <<HwCall("AddRef", h, <<>>),
                                 HwCall("GetCapabilities", h, <<>>)>>,
                    "SUCCESS", NoOut)

\* _cairo_image_surface_finish: the generic teardown of the embedded image
\* drops the pixel view; it knows nothing of the hardware
cairo_image_surface_finish(d) == [d EXCEPT !.pixman_image = 0]

cairo_dfb_surface_finish(d, w) ==
    Result(cairo_image_surface_finish(d),
           [w EXCEPT !.refs = @ - 1],
           <<HwCall("Release", "dfb_surface", <<>>)>>,
           "SUCCESS", NoOut)

\* the device format create_similar selects for a content
similar_format(content) ==
    CASE content = "CAIRO_CONTENT_COLOR" -> "DSPF_RGB32"
      [] content = "CAIRO_CONTENT_ALPHA" -> "DSPF_A8"
      [] OTHER                           -> "DSPF_ARGB"

\* the surface description create_similar passes to CreateSurface
similar_description(content, width, height) ==
    [caps_premultiplied |-> TRUE, width |-> width, height |-> height,
     pixelformat |-> similar_format(content)]

\* the buffer CreateSurface makes from a description
CreatedBuffer(dsc) ==
    [format |-> dsc.pixelformat, premultiplied |-> dsc.caps_premultiplied,
     width |-> dsc.width, height |-> dsc.height,
     refs |-> 1, locks |-> 0, clip |-> <<>>]

\* create_similar releasing the source's handle instead of the new buffer
create_similar_release_source(d, w, content, width, height, createOk, callocOk) ==
    LET dsc == similar_description(content, width, height)
        create == HwCall("CreateSurface", "dfb", dsc)
        made == cairo_directfb_surface_create("similar", CreatedBuffer(dsc), callocOk)
    IN  IF width <= 0 \/ height <= 0
        THEN Result(d, w, <<>>, "SUCCESS",
                    [kind |-> "image", content |-> content,
                     width |-> width, height |-> height])
        ELSE IF ~createOk
        THEN Result(d, w, <<create>>, "DEVICE_ERROR", [kind |-> "error"])
        ELSE Result(d, [w EXCEPT !.refs = @ - 1],
                    <<create>> \o made.calls
                        \o <<HwCall("Release", "dfb_surface", <<>>)>>,
                    made.ret,
                    [kind |-> IF made.ret = "SUCCESS" THEN "directfb" ELSE "error",
                     surface |-> made.ds, buffer |-> made.hw])

\* create_similar going to software only when both sizes are non-positive
create_similar_both_sizes(d, w, content, width, height, createOk, callocOk) ==
    LET dsc == similar_description(content, width, height)
        create == HwCall("CreateSurface", "dfb", dsc)
        made == cairo_directfb_surface_create("similar", CreatedBuffer(dsc), callocOk)
    IN  IF width <= 0 /\ height <= 0
        THEN Result(d, w, <<>>, "SUCCESS",
                    [kind |-> "image", content |-> content,
                     width |-> width, height |-> height])
        ELSE IF ~createOk
        THEN Result(d, w, <<create>>, "DEVICE_ERROR", [kind |-> "error"])
        ELSE Result(d, w,
                    <<create>> \o made.calls
                        \o <<HwCall("Release", "similar", <<>>)>>,
                    made.ret,
                    [kind |-> IF made.ret = "SUCCESS" THEN "directfb" ELSE "error",
                     surface |-> made.ds,
                     buffer |-> [made.hw EXCEPT !.refs = @ - 1]])

\* createOk is the outcome of CreateSurface, callocOk that of the calloc in
\* cairo_directfb_surface_create; out.surface is the new adapter and
\* out.buffer the hardware buffer it wraps
cairo_dfb_surface_create_similar(d, w, content, width, height, createOk, callocOk) ==
    LET dsc == similar_description(content, width, height)
        create == HwCall("CreateSurface", "dfb", dsc)
        made == cairo_directfb_surface_create("similar", CreatedBuffer(dsc), callocOk)
    IN  IF width <= 0 \/ height <= 0
        THEN Result(d, w, <<>>, "SUCCESS",
                    [kind |-> "image", content |-> content,
                     width |-> width, height |-> height])
        ELSE IF ~createOk
        THEN Result(d, w, <<create>>, "DEVICE_ERROR", [kind |-> "error"])
        ELSE Result(d, w,
                    <<create>> \o made.calls
                        \o <<HwCall("Release", "similar", <<>>)>>,
                    made.ret,
                    [kind |-> IF made.ret = "SUCCESS" THEN "directfb" ELSE "error",
                     surface |-> made.ds,
                     buffer |-> [made.hw EXCEPT !.refs = @ - 1]])

\* cairo_directfb_surface_get_surface
cairo_directfb_surface_get_surface(d, w) ==
    Result(d, w, <<>>, "SUCCESS", [kind |-> "handle", handle |-> "dfb_surface"])

(***************************************************************************)
(* The buffer state machine: map_to_image, unmap_image, flush.             *)
(***************************************************************************)
\* map_to_image without the test for an open pixel view
map_to_image_relock(d, w, extents, view, lockOk, imageOk) ==
    LET lock == HwCall("Lock", "dfb_surface", "DSLF_READ|DSLF_WRITE")
        error == [kind |-> "error"]
    IN  IF ~lockOk
        THEN Result(d, w, <<lock>>, "NO_MEMORY", error)
        ELSE IF ~imageOk
        THEN Result(d, w, <<lock, HwCall("Unlock", "dfb_surface", <<>>)>>,
                    "NO_MEMORY", error)
        ELSE Result([d EXCEPT !.pixman_image = view],
                    [w EXCEPT !.locks = @ + 1],
                    <<lock>>, "SUCCESS",
                    [kind |-> "image", view |-> view, extents |-> extents])

\* view is the identity the pixel view gets if one is created; lockOk and
\* imageOk are the outcomes of Lock and of pixman_image_create_bits
cairo_dfb_surface_map_to_image(d, w, extents, view, lockOk, imageOk) ==
    LET lock == HwCall("Lock", "dfb_surface", "DSLF_READ|DSLF_WRITE")
        error == [kind |-> "error"]
    IN  IF d.pixman_image = 0
        THEN IF ~lockOk
             THEN Result(d, w, <<lock>>, "NO_MEMORY", error)
             ELSE IF ~imageOk
             THEN Result(d, w,
                         <<lock, HwCall("Unlock", "dfb_surface", <<>>)>>,
                         "NO_MEMORY", error)
             ELSE Result([d EXCEPT !.pixman_image = view],
                         [w EXCEPT !.locks = @ + 1],
                         <<lock>>, "SUCCESS",
                         [kind |-> "image", view |-> view, extents |-> extents])
        ELSE Result(d, w, <<>>, "SUCCESS",
                    [kind |-> "image", view |-> d.pixman_image,
                     extents |-> extents])

\* unmap_image closing the mapping as a write-back flush does
unmap_image_unlocks(d, w) ==
    IF d.pixman_image # 0
    THEN Result([d EXCEPT !.pixman_image = 0],
                [w EXCEPT !.locks = @ - 1],
                <<HwCall("Unlock", "dfb_surface", <<>>)>>,
                "SUCCESS", NoOut)
    ELSE Result(d, w, <<>>, "SUCCESS", NoOut)

\* _cairo_image_surface_unmap_image gives the caller's image back and leaves
\* the adapter alone
cairo_dfb_surface_unmap_image(d, w) ==
    Result(d, w, <<>>, "SUCCESS", NoOut)

\* flush without the test of the flags
flush_any_flags(d, w, flags) ==
    IF d.pixman_image # 0
    THEN Result([d EXCEPT !.pixman_image = 0],
                [w EXCEPT !.locks = @ - 1],
                <<HwCall("Unlock", "dfb_surface", <<>>)>>,
                "SUCCESS", NoOut)
    ELSE Result(d, w, <<>>, "SUCCESS", NoOut)

cairo_dfb_surface_flush(d, w, flags) ==
    IF flags # 0
    THEN Result(d, w, <<>>, "SUCCESS", NoOut)
    ELSE IF d.pixman_image # 0
    THEN Result([d EXCEPT !.pixman_image = 0],
                [w EXCEPT !.locks = @ - 1],
                <<HwCall("Unlock", "dfb_surface", <<>>)>>,
                "SUCCESS", NoOut)
    ELSE Result(d, w, <<>>, "SUCCESS", NoOut)

(***************************************************************************)
(* Clip application.                                                       *)
(***************************************************************************)
\* clipOk is the outcome of the hardware SetClip call; a failed SetClip
\* leaves the clip of the hardware surface as it was
cairo_dfb_surface_set_clip(d, w, clip, clipOk) ==
    LET status == IF clipOk THEN "SUCCESS" ELSE "UNSUPPORTED"
        region == [x1 |-> clip.extents.x, y1 |-> clip.extents.y,
                   x2 |-> clip.extents.x + clip.extents.width,
                   y2 |-> clip.extents.y + clip.extents.height]
    IN  IF clip.kind = "NULL" /\ d.clipped
        THEN Result([d EXCEPT !.clipped = FALSE],
                    IF clipOk THEN [w EXCEPT !.clip = <<>>] ELSE w,
                    <<HwCall("SetClip", "dfb_surface", <<>>)>>,
                    status, NoOut)
        ELSE IF clip.kind # "NULL" /\ ~cairo_clip_is_all_clipped(clip)
        THEN Result([d EXCEPT !.clipped = TRUE],
                    IF clipOk THEN [w EXCEPT !.clip = <<region>>] ELSE w,
                    <<HwCall("SetClip", "dfb_surface", <<region>>)>>,
                    status, NoOut)
        ELSE Result(d, w, <<>>, "SUCCESS", NoOut)

(***************************************************************************)
(* The fill dispatcher.                                                    *)
(***************************************************************************)
\* a 16-bit channel assigned to a u8
u8(short) == short % 256

\* the drawing flag of a blend pair
solid_drawing_flags(blend) ==
    IF blend.srcblend = "DSBF_ONE" /\ blend.dstblend = "DSBF_ZERO"
    THEN "DSDRAW_NOFX" ELSE "DSDRAW_BLEND"

\* the drawing state fill_solid installs for a blend pair
solid_drawing_state(blend) ==
    <<HwCall("SetDrawingFlags", "dfb_surface", solid_drawing_flags(blend))>>
    \o (IF solid_drawing_flags(blend) = "DSDRAW_BLEND"
        THEN <<HwCall("SetSrcBlendFunction", "dfb_surface", blend.srcblend),
               HwCall("SetDstBlendFunction", "dfb_surface", blend.dstblend)>>
        ELSE <<>>)

\* the opaque-color collapse of one blend factor
opaque_collapse(opaque, factor) ==
    IF opaque /\ factor = "DSBF_SRCALPHA" THEN "DSBF_ONE"
    ELSE IF opaque /\ factor = "DSBF_INVSRCALPHA" THEN "DSBF_ZERO"
    ELSE factor

\* the bytes r, g, b, a of a solid color
solid_color_bytes(color) ==
    [r |-> u8(color.red_short), g |-> u8(color.green_short),
     b |-> u8(color.blue_short), a |-> u8(color.alpha_short)]

\* fill_solid with the rectangle test made only after the color is set
fill_solid_late_check(d, w, op, pattern, path) ==
    LET blend == directfb_get_operator(op)
        opaque == COLOR_IS_OPAQUE(pattern.color)
        prepare == solid_drawing_state(blend)
                   \o <<HwCall("SetColor", "dfb_surface",
                               solid_color_bytes(pattern.color))>>
    IN  IF ~blend.ok
        THEN Result(d, w, <<>>, "UNSUPPORTED", NoOut)
        ELSE IF ~cairo_path_fixed_is_rectangle(path)
        THEN Result(d, w, prepare, "UNSUPPORTED", NoOut)
        ELSE Result(d, w,
                    prepare \o <<HwCall("FillRectangle", "dfb_surface",
                                        dfb_rect_from_cairo_box(path.box))>>,
                    "SUCCESS",
                    [kind |-> "solid",
                     sblend |-> opaque_collapse(opaque, blend.srcblend),
                     dblend |-> opaque_collapse(opaque, blend.dstblend)])

\* the results of SetColor and FillRectangle are only printed, so their
\* outcomes do not reach the model; out.sblend and out.dblend are the locals
\* sblend and dblend when the function returns
cairo_dfb_surface_fill_solid(d, w, op, pattern, path) ==
    LET blend == directfb_get_operator(op)
        opaque == COLOR_IS_OPAQUE(pattern.color)
    IN  IF ~cairo_path_fixed_is_rectangle(path)
        THEN Result(d, w, <<>>, "UNSUPPORTED", NoOut)
        ELSE IF ~blend.ok
        THEN Result(d, w, <<>>, "UNSUPPORTED", NoOut)
        ELSE Result(d, w,
                    solid_drawing_state(blend)
                        \o <<HwCall("GetSize", "dfb_surface", <<>>),
                             HwCall("SetColor", "dfb_surface",
                                    solid_color_bytes(pattern.color)),
                             HwCall("FillRectangle", "dfb_surface",
                                    dfb_rect_from_cairo_box(path.box))>>,
                    "SUCCESS",
                    [kind |-> "solid",
                     sblend |-> opaque_collapse(opaque, blend.srcblend),
                     dblend |-> opaque_collapse(opaque, blend.dstblend)])

\* acquireOk is the outcome of _cairo_surface_acquire_source_image, createOk
\* that of CreateSurface, ndebug whether the build compiles assert() out.
\* out.acquired and out.released count the source images acquired through
\* the acquire service and released again; out.created counts the temporary
\* surfaces CreateSurface made.
SurfaceOut(acquired, created) ==
    [kind |-> "surface", acquired |-> acquired, released |-> 0,
     created |-> created]

\* fill_surface releasing the temporary surface only after a blit
fill_surface_release_with_blit(d, w, op, pattern, path, acquireOk, createOk, ndebug) ==
    LET surface == pattern.surface
        is_image == surface.type = "CAIRO_SURFACE_TYPE_IMAGE"
        acquired == IF ~is_image /\ acquireOk THEN 1 ELSE 0
        \* imgsurf is the pattern's surface when it is an image, NULL after
        \* a successful acquire
        imgsurf_null == ~is_image
        r1 == dfb_rect_from_cairo_box(path.box)
        r2 == dfb_rect_from_cairo_box_translate(path.box, pattern.matrix)
        dsc == [caps_premultiplied |-> TRUE, width |-> surface.width,
                height |-> surface.height,
                pixelformat |-> dfb_format_from_cairo_format(surface.format)]
        create == HwCall("CreateSurface", "dfb", dsc)
        rb == [x |-> 0, y |-> 0, w |-> surface.width, h |-> surface.height]
        upload == <<HwCall("Write", "buffer", rb),
                    HwCall("SetDrawingFlags", "dfb_surface", "DSDRAW_BLEND"),
                    HwCall("SetPorterDuff", "dfb_surface",
                           cairo_operator_to_dfb_porter_duff(op))>>
        blit == [src |-> "buffer", rect |-> r2, x |-> r1.x, y |-> r1.y]
        draw == IF pattern.extend = "CAIRO_EXTEND_NONE"
                THEN <<HwCall("Blit", "dfb_surface", blit)>>
                ELSE IF pattern.extend = "CAIRO_EXTEND_REPEAT"
                THEN <<HwCall("TileBlit", "dfb_surface", blit)>>
                ELSE <<>>
    IN  IF ~cairo_path_fixed_is_rectangle(path)
        THEN Result(d, w, <<>>, "UNSUPPORTED", SurfaceOut(0, 0))
        ELSE IF surface.type = "CAIRO_SURFACE_TYPE_DIRECTFB"
        THEN Result(d, w, <<>>, "SUCCESS", SurfaceOut(0, 0))
        ELSE IF ~is_image /\ ~acquireOk
        THEN Result(d, w, <<>>, "UNSUPPORTED", SurfaceOut(0, 0))
        ELSE IF imgsurf_null \/ surface.width * surface.height = 0
        THEN Result(d, w, <<>>, "UNSUPPORTED", SurfaceOut(acquired, 0))
        ELSE IF ~createOk
        THEN Result(d, w, <<create>>,
                    IF ndebug THEN "UNSUPPORTED" ELSE "ABORT",
                    SurfaceOut(acquired, 0))
        ELSE Result(d, w,
                    <<create>> \o upload \o draw
                        \o (IF draw = <<>> THEN <<>>
                            ELSE <<HwCall("Release", "buffer", <<>>)>>),
                    "SUCCESS", SurfaceOut(acquired, 1))

cairo_dfb_surface_fill_surface(d, w, op, pattern, path, acquireOk, createOk, ndebug) ==
    LET surface == pattern.surface
        is_image == surface.type = "CAIRO_SURFACE_TYPE_IMAGE"
        acquired == IF ~is_image /\ acquireOk THEN 1 ELSE 0
        \* imgsurf is the pattern's surface when it is an image, NULL after
        \* a successful acquire
        imgsurf_null == ~is_image
        r1 == dfb_rect_from_cairo_box(path.box)
        r2 == dfb_rect_from_cairo_box_translate(path.box, pattern.matrix)
        dsc == [caps_premultiplied |-> TRUE, width |-> surface.width,
                height |-> surface.height,
                pixelformat |-> dfb_format_from_cairo_format(surface.format)]
        create == HwCall("CreateSurface", "dfb", dsc)
        rb == [x |-> 0, y |-> 0, w |-> surface.width, h |-> surface.height]
        upload == <<HwCall("Write", "buffer", rb),
                    HwCall("SetDrawingFlags", "dfb_surface", "DSDRAW_BLEND"),
                    HwCall("SetPorterDuff", "dfb_surface",
                           cairo_operator_to_dfb_porter_duff(op))>>
        blit == [src |-> "buffer", rect |-> r2, x |-> r1.x, y |-> r1.y]
        draw == IF pattern.extend = "CAIRO_EXTEND_NONE"
                THEN <<HwCall("Blit", "dfb_surface", blit)>>
                ELSE IF pattern.extend = "CAIRO_EXTEND_REPEAT"
                THEN <<HwCall("TileBlit", "dfb_surface", blit)>>
                ELSE <<>>
    IN  IF ~cairo_path_fixed_is_rectangle(path)
        THEN Result(d, w, <<>>, "UNSUPPORTED", SurfaceOut(0, 0))
        ELSE IF surface.type = "CAIRO_SURFACE_TYPE_DIRECTFB"
        THEN Result(d, w, <<>>, "SUCCESS", SurfaceOut(0, 0))
        ELSE IF ~is_image /\ ~acquireOk
        THEN Result(d, w, <<>>, "UNSUPPORTED", SurfaceOut(0, 0))
        ELSE IF imgsurf_null \/ surface.width * surface.height = 0
        THEN Result(d, w, <<>>, "UNSUPPORTED", SurfaceOut(acquired, 0))
        ELSE IF ~createOk
        THEN Result(d, w, <<create>>,
                    IF ndebug THEN "UNSUPPORTED" ELSE "ABORT",
                    SurfaceOut(acquired, 0))
        ELSE Result(d, w,
                    <<create>> \o upload \o draw
                        \o <<HwCall("Release", "buffer", <<>>)>>,
                    "SUCCESS", SurfaceOut(acquired, 1))

\* _cairo_surface_fallback_fill, the external software rasteriser: the model
\* records the arguments it is invoked with (out.fallback); its status is
\* fallbackRet.  out.step is the last sub-step fill reached and out.native
\* the status of the native path

FillOut(step, native, sub, fallback) ==
    [kind |-> "fill", step |-> step, native |-> native, sub |-> sub,
     fallback |-> fallback]

\* fill returning the status of its sub-step as it is
fill_no_fallback(d, w, args, env) ==
    LET clipped == cairo_dfb_surface_set_clip(d, w, args.clip, env.clipOk)
        sub == CASE args.pattern.type = "CAIRO_PATTERN_TYPE_SOLID" ->
                      cairo_dfb_surface_fill_solid(clipped.ds, clipped.hw,
                          args.op, args.pattern, args.path)
                 [] args.pattern.type = "CAIRO_PATTERN_TYPE_SURFACE" ->
                      cairo_dfb_surface_fill_surface(clipped.ds, clipped.hw,
                          args.op, args.pattern, args.path,
                          env.acquireOk, env.createOk, env.ndebug)
                 [] OTHER ->
                      Result(clipped.ds, clipped.hw, <<>>, clipped.ret, NoOut)
        step == CASE args.pattern.type = "CAIRO_PATTERN_TYPE_SOLID" -> "solid"
                  [] args.pattern.type = "CAIRO_PATTERN_TYPE_SURFACE" -> "surface"
                  [] OTHER -> "todo"
    IN  IF ~cairo_dfb_is_op_supported(args.op)
        THEN Result(d, w, <<>>, env.fallbackRet,
                    FillOut("operator", "NONE", NoOut, <<args>>))
        ELSE IF clipped.ret # "SUCCESS"
        THEN Result(clipped.ds, clipped.hw, clipped.calls, clipped.ret,
                    FillOut("clip", clipped.ret, NoOut, <<>>))
        ELSE Result(sub.ds, sub.hw, clipped.calls \o sub.calls, sub.ret,
                    FillOut(step, sub.ret, sub.out, <<>>))

\* args: op, pattern, path, fill_rule, tolerance, antialias, clip
\* env: the outcomes of the calls fill makes outside the adapter
cairo_dfb_surface_fill(d, w, args, env) ==
    LET clipped == cairo_dfb_surface_set_clip(d, w, args.clip, env.clipOk)
        sub == CASE args.pattern.type = "CAIRO_PATTERN_TYPE_SOLID" ->
                      cairo_dfb_surface_fill_solid(clipped.ds, clipped.hw,
                          args.op, args.pattern, args.path)
                 [] args.pattern.type = "CAIRO_PATTERN_TYPE_SURFACE" ->
                      cairo_dfb_surface_fill_surface(clipped.ds, clipped.hw,
                          args.op, args.pattern, args.path,
                          env.acquireOk, env.createOk, env.ndebug)
                 [] OTHER ->
                      \* LINEAR, RADIAL, MESH, RASTER_SOURCE: status is left
                      \* as set_clip returned it
                      Result(clipped.ds, clipped.hw, <<>>, clipped.ret, NoOut)
        step == CASE args.pattern.type = "CAIRO_PATTERN_TYPE_SOLID" -> "solid"
                  [] args.pattern.type = "CAIRO_PATTERN_TYPE_SURFACE" -> "surface"
                  [] OTHER -> "todo"
        calls == clipped.calls \o sub.calls
    IN  IF ~cairo_dfb_is_op_supported(args.op)
        THEN Result(d, w, <<>>, env.fallbackRet,
                    FillOut("operator", "NONE", NoOut, <<args>>))
        ELSE IF clipped.ret # "SUCCESS"
        THEN Result(clipped.ds, clipped.hw, clipped.calls, clipped.ret,
                    FillOut("clip", clipped.ret, NoOut, <<>>))
        ELSE IF sub.ret = "UNSUPPORTED"
        THEN Result(sub.ds, sub.hw, calls, env.fallbackRet,
                    FillOut(step, sub.ret, sub.out, <<args>>))
        ELSE Result(sub.ds, sub.hw, calls, sub.ret,
                    FillOut(step, sub.ret, sub.out, <<>>))

(***************************************************************************)
(* The inputs of the operations.                                           *)
(***************************************************************************)
Color(r, g, b, a) ==
    [red_short |-> r, green_short |-> g, blue_short |-> b, alpha_short |-> a]

\* opaque red, opaque cyan, opaque half-intensity grey, half-transparent red
\* (the shorts of a cairo_color_t are premultiplied)
Colors == {Color(65535, 0, 0, 65535), Color(0, 65535, 65535, 65535),
           Color(32768, 32768, 32768, 65535), Color(32768, 0, 0, 32768)}

Box(x1, y1, x2, y2) == [p1x |-> x1, p1y |-> y1, p2x |-> x2, p2y |-> y2]

\* (10,10)-(50,40), (0,0)-(8,8), (0.5,1.25)-(3.5,2), and a path that is not
\* a rectangle
Paths == {[kind |-> "rectangle", box |-> Box(2560, 2560, 12800, 10240)],
          [kind |-> "rectangle", box |-> Box(0, 0, 2048, 2048)],
          [kind |-> "rectangle", box |-> Box(128, 320, 896, 512)],
          [kind |-> "other"]}

\* no clip, a region with bounding rectangle 20x10 at (5,5), a region that
\* excludes everything
Clips == {[kind |-> "NULL"],
          [kind |-> "region", all_clipped |-> FALSE,
           extents |-> [x |-> 5, y |-> 5, width |-> 20, height |-> 10]],
          [kind |-> "region", all_clipped |-> TRUE,
           extents |-> [x |-> 0, y |-> 0, width |-> 0, height |-> 0]]}

\* the source surfaces of image patterns: another DirectFB surface, image
\* surfaces (one of zero area, one opaque, one with alpha), and a surface of
\* another backend
SourceSurface(type, width, height, format) ==
    [type |-> type, width |-> width, height |-> height, format |-> format]

OpaqueImage == SourceSurface("CAIRO_SURFACE_TYPE_IMAGE", 2, 2, "CAIRO_FORMAT_RGB24")

SurfacePattern(surface, extend) ==
    [type |-> "CAIRO_PATTERN_TYPE_SURFACE", surface |-> surface,
     extend |-> extend, matrix |-> [x0 |-> 1, y0 |-> 0]]

SolidPatterns ==
    {[type |-> "CAIRO_PATTERN_TYPE_SOLID", color |-> c] : c \in Colors}

SurfacePatterns ==
    {SurfacePattern(OpaqueImage, e) :
        e \in {"CAIRO_EXTEND_NONE", "CAIRO_EXTEND_REPEAT",
               "CAIRO_EXTEND_REFLECT", "CAIRO_EXTEND_PAD"}}
    \cup {SurfacePattern(z, "CAIRO_EXTEND_NONE") :
        z \in {SourceSurface("CAIRO_SURFACE_TYPE_DIRECTFB", 2, 2, "CAIRO_FORMAT_RGB24"),
               SourceSurface("CAIRO_SURFACE_TYPE_IMAGE", 0, 2, "CAIRO_FORMAT_RGB24"),
               SourceSurface("CAIRO_SURFACE_TYPE_IMAGE", 2, 2, "CAIRO_FORMAT_ARGB32"),
               SourceSurface("CAIRO_SURFACE_TYPE_RECORDING", 2, 2, "CAIRO_FORMAT_RGB24")}}

TodoPatterns ==
    {[type |-> t] : t \in {"CAIRO_PATTERN_TYPE_LINEAR",
                           "CAIRO_PATTERN_TYPE_RADIAL",
                           "CAIRO_PATTERN_TYPE_MESH",
                           "CAIRO_PATTERN_TYPE_RASTER_SOURCE"}}

Patterns == SolidPatterns \cup SurfacePatterns \cup TodoPatterns

Rect10 == [kind |-> "rectangle", box |-> Box(2560, 2560, 12800, 10240)]
NoRect == [kind |-> "other"]
NoClip == [kind |-> "NULL"]

\* fill arguments: the fill rule, tolerance and antialias are passed on
\* untouched
Args(ops, patterns, paths, clips) ==
    [op : ops, pattern : patterns, path : paths,
     fill_rule : {"CAIRO_FILL_RULE_WINDING"}, tolerance : {1},
     antialias : {"CAIRO_ANTIALIAS_DEFAULT"}, clip : clips]

\* the fills of the fill dispatcher's specification: every operator with
\* each solid color, on a rectangle and on another path; every supported
\* operator with every other pattern type; three operators with every solid
\* fill, path and clip; two operators with every image pattern
FillArgs ==
    Args(Operators, SolidPatterns, {Rect10, NoRect}, {NoClip})
    \cup Args(SupportedOperators, TodoPatterns, {Rect10}, {NoClip})
    \cup Args({"SOURCE", "OVER", "MULTIPLY"}, SolidPatterns, Paths, Clips)
    \cup Args({"SOURCE", "OVER"}, SurfacePatterns, {Rect10, NoRect},
              Clips \ {NoClip})
    \cup Args({"SOURCE"}, TodoPatterns, {Rect10}, Clips)

\* the fills of the adapter's life-cycle specification
LifeFillArgs ==
    Args({"SOURCE", "OVER", "MULTIPLY"},
         {[type |-> "CAIRO_PATTERN_TYPE_SOLID", color |-> Color(65535, 0, 0, 65535)],
          SurfacePattern(OpaqueImage, "CAIRO_EXTEND_NONE"),
          [type |-> "CAIRO_PATTERN_TYPE_LINEAR"]},
         {Rect10, NoRect}, Clips)

Statuses == {"SUCCESS", "UNSUPPORTED"}

\* the outcomes of the external calls of one fill: SetClip, the acquire
\* service, CreateSurface (ndebug: the build compiles assert() out), the
\* status of the software fallback; those only an image pattern can reach
\* are drawn for image patterns only
FillEnvs(args) ==
    LET image == IF args.pattern.type = "CAIRO_PATTERN_TYPE_SURFACE"
                 THEN {[acquireOk |-> TRUE, createOk |-> TRUE, ndebug |-> TRUE],
                       [acquireOk |-> FALSE, createOk |-> TRUE, ndebug |-> TRUE],
                       [acquireOk |-> TRUE, createOk |-> FALSE, ndebug |-> TRUE],
                       [acquireOk |-> TRUE, createOk |-> FALSE, ndebug |-> FALSE]}
                 ELSE {[acquireOk |-> TRUE, createOk |-> TRUE, ndebug |-> TRUE]}
    IN  {[clipOk |-> c, acquireOk |-> i.acquireOk, createOk |-> i.createOk,
          ndebug |-> i.ndebug, fallbackRet |-> f] :
            c \in BOOLEAN, i \in image, f \in Statuses}

Contents == {"CAIRO_CONTENT_COLOR", "CAIRO_CONTENT_ALPHA",
             "CAIRO_CONTENT_COLOR_ALPHA"}

MapExtents == {[x |-> 0, y |-> 0, width |-> 64, height |-> 48],
               [x |-> 8, y |-> 8, width |-> 16, height |-> 16]}

\* the pixel formats of the hardware surface handed to create: one cairo can
\* address, the YUV ones pixman cannot write to, some without a pixman
\* equivalent
HwFormats == {"DSPF_ARGB", "DSPF_YUY2", "DSPF_YV12", "DSPF_LUT8", "DSPF_A1",
              "DSPF_UNKNOWN"}

(***************************************************************************)
(* The state machine.                                                      *)
(***************************************************************************)
Init ==
    /\ life = "none"
    /\ ds = NullSurface
    /\ hw \in [format : HwFormats, premultiplied : BOOLEAN, width : {64},
               height : {48}, refs : {1}, locks : {0}, clip : {<<>>}]
    /\ views = 0
    /\ outstanding = 0
    /\ last = [op |-> "none", args |-> <<>>,
               pre |-> [ds |-> NullSurface, hw |-> hw],
               calls |-> <<>>, ret |-> "SUCCESS", out |-> NoOut]

\* one operation on the adapter, r being what its handler returned
Apply(op, args, r) ==
    /\ ds' = r.ds
    /\ hw' = r.hw
    /\ last' = [op |-> op, args |-> args, pre |-> [ds |-> ds, hw |-> hw],
                calls |-> r.calls, ret |-> r.ret, out |-> r.out]

Create ==
    /\ life = "none"
    /\ \E callocOk \in BOOLEAN :
         LET r == cairo_directfb_surface_create("dfb_surface", hw, callocOk)
         IN  /\ Apply("create", <<>>, r)
             /\ life' = IF r.ret = "SUCCESS" THEN "live" ELSE "error"
    /\ UNCHANGED <<views, outstanding>>

Finish ==
    /\ life = "live"
    /\ Apply("finish", <<>>, cairo_dfb_surface_finish(ds, hw))
    /\ life' = "finished"
    /\ UNCHANGED <<views, outstanding>>

CreateSimilar ==
    /\ life = "live"
    /\ \E content \in Contents, width \in {0, 16}, height \in {-5, 16},
          createOk \in BOOLEAN, callocOk \in BOOLEAN :
         Apply("create_similar",
               [content |-> content, width |-> width, height |-> height],
               cairo_dfb_surface_create_similar(ds, hw, content, width, height,
                                                createOk, callocOk))
    /\ UNCHANGED <<life, views, outstanding>>

GetSurface ==
    /\ life = "live"
    /\ Apply("get_surface", <<>>, cairo_directfb_surface_get_surface(ds, hw))
    /\ UNCHANGED <<life, views, outstanding>>

MapToImage ==
    /\ life = "live"
    /\ outstanding < MaxOutstanding
    /\ ds.pixman_image = 0 => views < MaxViews
    /\ \E extents \in MapExtents, lockOk \in BOOLEAN, imageOk \in BOOLEAN :
         LET r == cairo_dfb_surface_map_to_image(ds, hw, extents, views + 1,
                                                 lockOk, imageOk)
         IN  /\ Apply("map_to_image", [extents |-> extents], r)
             /\ views' = IF r.ds.pixman_image # ds.pixman_image
                         THEN views + 1 ELSE views
             /\ outstanding' = IF r.ret = "SUCCESS"
                               THEN outstanding + 1 ELSE outstanding
    /\ UNCHANGED life

UnmapImage ==
    /\ life = "live"
    /\ outstanding > 0
    /\ Apply("unmap_image", <<>>, cairo_dfb_surface_unmap_image(ds, hw))
    /\ outstanding' = outstanding - 1
    /\ UNCHANGED <<life, views>>

Flush ==
    /\ life = "live"
    /\ \E flags \in {0, 1} :
         Apply("flush", [flags |-> flags], cairo_dfb_surface_flush(ds, hw, flags))
    /\ UNCHANGED <<life, views, outstanding>>

\* the fill calls with arguments in A; the external outcomes that lead to
\* the same result count once
FillWith(A) ==
    /\ life = "live"
    /\ \E args \in A :
         \E r \in {cairo_dfb_surface_fill(ds, hw, args, env) : env \in FillEnvs(args)} :
             /\ Apply("fill", args, r)
             /\ life' = IF r.ret = "ABORT" THEN "aborted" ELSE "live"
    /\ UNCHANGED <<views, outstanding>>

Fill == FillWith(LifeFillArgs)

FillAny == FillWith(FillArgs)

Next ==
    \/ Create
    \/ Finish
    \/ CreateSimilar
    \/ GetSurface
    \/ MapToImage
    \/ UnmapImage
    \/ Flush
    \/ Fill

Spec == Init /\ [][Next]_vars

\* The fill dispatcher on its own: a freshly created adapter and fill calls
\* over the whole input set.
InitFill ==
    /\ life = "live"
    /\ \E premultiplied \in BOOLEAN :
         LET w == [format |-> "DSPF_ARGB", premultiplied |-> premultiplied,
                   width |-> 64, height |-> 48, refs |-> 1, locks |-> 0,
                   clip |-> <<>>]
             r == cairo_directfb_surface_create("dfb_surface", w, TRUE)
         IN  /\ ds = r.ds
             /\ hw = r.hw
             /\ last = [op |-> "create", args |-> <<>>,
                        pre |-> [ds |-> NullSurface, hw |-> w],
                        calls |-> r.calls, ret |-> r.ret, out |-> r.out]
    /\ views = 0
    /\ outstanding = 0

NextFill == FillAny

SpecFill == InitFill /\ [][NextFill]_vars

(***************************************************************************)
(* The format and operator tables on their own: `last' holds one lookup of *)
(* an operator in the three operator tables and of a device format in the  *)
(* format table.                                                           *)
(***************************************************************************)
\* every DFBSurfacePixelFormat the format table names
DeviceFormats ==
    {"DSPF_ARGB1555", "DSPF_RGB16", "DSPF_RGB24", "DSPF_RGB32", "DSPF_ARGB",
     "DSPF_A8", "DSPF_YUY2", "DSPF_RGB332", "DSPF_YV12", "DSPF_ARGB4444",
     "DSPF_A4", "DSPF_RGB444", "DSPF_RGB555", "DSPF_BGR555",
     "DSPF_UNKNOWN", "DSPF_UYVY", "DSPF_I420", "DSPF_LUT8", "DSPF_ALUT44",
     "DSPF_AiRGB", "DSPF_A1", "DSPF_NV12", "DSPF_NV16", "DSPF_ARGB2554",
     "DSPF_RGBA4444", "DSPF_NV21", "DSPF_AYUV", "DSPF_ARGB1666",
     "DSPF_ARGB6666", "DSPF_RGB18", "DSPF_LUT2", "DSPF_RGBA5551",
     "DSPF_YUV444P", "DSPF_ARGB8565", "DSPF_AVYU", "DSPF_VYU", "DSPF_A1_LSB",
     "DSPF_YV16", "DSPF_ABGR", "DSPF_RGBAF88871", "DSPF_LUT4", "DSPF_ALUT8",
     "DSPF_LUT1"}

TableLookup(operator, format) ==
    [op |-> "lookup",
     args |-> [operator |-> operator, format |-> format],
     pre |-> [ds |-> NullSurface],
     calls |-> <<>>,
     ret |-> "SUCCESS",
     out |-> [kind |-> "tables",
              supported |-> cairo_dfb_is_op_supported(operator),
              blend |-> directfb_get_operator(operator),
              rule |-> cairo_operator_to_dfb_porter_duff(operator),
              pixman_format |-> directfb_to_pixman_format(format),
              destination |-> pixman_format_supported_destination(
                                  directfb_to_pixman_format(format))]]

InitTables ==
    /\ life = "none"
    /\ ds = NullSurface
    /\ hw = [format |-> "DSPF_UNKNOWN", premultiplied |-> FALSE, width |-> 0,
             height |-> 0, refs |-> 1, locks |-> 0, clip |-> <<>>]
    /\ views = 0
    /\ outstanding = 0
    /\ last = TableLookup("CLEAR", "DSPF_UNKNOWN")

LookupOperator ==
    /\ \E operator \in Operators :
          last' = TableLookup(operator, last.args.format)
    /\ UNCHANGED <<life, ds, hw, views, outstanding>>

LookupFormat ==
    /\ \E format \in DeviceFormats :
          last' = TableLookup(last.args.operator, format)
    /\ UNCHANGED <<life, ds, hw, views, outstanding>>

NextTables ==
    \/ LookupOperator
    \/ LookupFormat

SpecTables == InitTables /\ [][NextTables]_vars

(***************************************************************************)
(* Properties.  `last' describes the operation that led to the state:      *)
(* last.pre is the adapter and the hardware it started from, last.calls    *)
(* the hardware calls it issued, in order.                                 *)
(***************************************************************************)
IsFill == last.op = "fill"

\* the calls of the last operation named name on the wrapped surface
LastCalls(name) == CallsOf(last.calls, name, "dfb_surface")

\* C1: fill issues no native draw call (FillRectangle, Blit, TileBlit) when
\* it is called on an adapter that is MAPPED (a pixel view is open, the
\* hardware buffer is lock-held).
C1_NoNativeDrawWhileMapped ==
    (IsFill /\ Mapped(last.pre.ds))
        => CallNames(last.calls) \cap NativeDraws = {}

\* C2: in every reachable state the pixel view is present if and only if the
\* hardware buffer is lock-held by the adapter: Lock minus Unlock is 1 with
\* a view, 0 without, and never anything else.
C2_ViewIffLockHeld ==
    /\ hw.locks \in {0, 1}
    /\ Mapped(ds) <=> hw.locks = 1

\* C3: a map_to_image call on an adapter that is already MAPPED issues no
\* Lock call and is served from the pixel view that was already open.
C3_MapIdempotent ==
    (last.op = "map_to_image" /\ Mapped(last.pre.ds))
        => /\ LastCalls("Lock") = {}
           /\ last.ret = "SUCCESS"
           /\ last.out.view = last.pre.ds.pixman_image
           /\ ds.pixman_image = last.pre.ds.pixman_image
           /\ hw.locks = last.pre.hw.locks

\* a second map_to_image served while the first image is still handed out
C3_Witness ==
    /\ last.op = "map_to_image"
    /\ Mapped(last.pre.ds)
    /\ last.ret = "SUCCESS"
    /\ outstanding = 2

\* C4: flush with a non-zero flag issues no hardware call and changes no
\* field; flush with flags = 0 on a MAPPED adapter issues exactly one Unlock,
\* drops the pixel view and leaves the adapter UNMAPPED; flush with
\* flags = 0 on an UNMAPPED adapter issues no hardware call.
C4_FlushClosesOnWriteBack ==
    last.op = "flush"
        => IF last.args.flags # 0
           THEN last.calls = <<>> /\ ds = last.pre.ds /\ hw = last.pre.hw
           ELSE IF Mapped(last.pre.ds)
           THEN /\ last.calls = <<HwCall("Unlock", "dfb_surface", <<>>)>>
                /\ ~Mapped(ds)
                /\ hw.locks = last.pre.hw.locks - 1
                /\ hw.locks = 0
           ELSE last.calls = <<>> /\ ds = last.pre.ds /\ hw = last.pre.hw

\* a write-back flush that closes the second mapping of the adapter, the
\* first having been closed by an earlier write-back flush
C4_Witness ==
    /\ last.op = "flush"
    /\ last.args.flags = 0
    /\ Mapped(last.pre.ds)
    /\ views = 2

\* C5: finish on a MAPPED adapter issues an Unlock before the Release of the
\* hardware handle, so no adapter is torn down with the lock still held.
C5_UnlockBeforeRelease ==
    (last.op = "finish" /\ Mapped(last.pre.ds))
        => /\ \E i \in LastCalls("Unlock"), j \in LastCalls("Release") : i < j
           /\ hw.locks = 0

\* C6: the adapter's reference on the wrapped handle is balanced: a
\* successful create issues exactly one AddRef, finish exactly one Release,
\* and no other operation issues AddRef or Release on the wrapped handle.
C6_ReferenceBalanced ==
    /\ last.op = "create" =>
          /\ Cardinality(LastCalls("AddRef")) = IF last.ret = "SUCCESS" THEN 1 ELSE 0
          /\ LastCalls("Release") = {}
    /\ last.op = "finish" =>
          /\ Cardinality(LastCalls("Release")) = 1
          /\ LastCalls("AddRef") = {}
    /\ last.op \notin {"create", "finish"} =>
          LastCalls("AddRef") \cup LastCalls("Release") = {}
    /\ hw.refs = IF life \in {"live", "aborted"} THEN 2 ELSE 1

\* an adapter finished after it had been mapped and flushed: the caller's
\* reference is the only one left
C6_Witness ==
    /\ last.op = "finish"
    /\ life = "finished"
    /\ views > 0
    /\ hw.refs = 1

\* C7: the status 'unsupported' of the native path is never returned to the
\* caller of fill: it always leads to one invocation of the software
\* fallback, so fill returns 'unsupported' only if the fallback returned it.
C7_UnsupportedNeverReturned ==
    IsFill =>
        /\ last.out.native = "UNSUPPORTED" => Len(last.out.fallback) = 1
        /\ last.ret = "UNSUPPORTED" => Len(last.out.fallback) = 1

\* C8: whenever fill invokes the software fallback it invokes it exactly
\* once, with the arguments fill was called with, and no draw or upload call
\* (SetColor, FillRectangle, Write, Blit, TileBlit) was issued in that call.
C8_FallbackAllOrNothing ==
    IsFill =>
        /\ Len(last.out.fallback) <= 1
        /\ Len(last.out.fallback) = 1 =>
              /\ last.out.fallback[1] = last.args
              /\ CallNames(last.calls) \cap DrawOrUpload = {}

\* a fallback taken after the native path had begun: the clip was installed
\* on the hardware and the sub-step then declined
C8_Witness ==
    /\ IsFill
    /\ Len(last.out.fallback) = 1
    /\ last.out.step \in {"solid", "surface"}
    /\ LastCalls("SetClip") # {}

\* C9: in a solid fill with a fully opaque color no SRC_ALPHA or
\* INV_SRC_ALPHA factor is installed on the hardware, the drawing flag is
\* no-effect exactly when the collapsed factor pair is (ONE, ZERO), and for
\* operator over the pair is (ONE, ZERO) and the flag no-effect.
SolidDrawn == IsFill /\ last.out.step = "solid" /\ last.out.native = "SUCCESS"

InstalledFactors ==
    {last.calls[i].a : i \in LastCalls("SetSrcBlendFunction")
                               \cup LastCalls("SetDstBlendFunction")}

InstalledFlags == {last.calls[i].a : i \in LastCalls("SetDrawingFlags")}

C9_OpaqueCollapseInstalled ==
    (SolidDrawn /\ COLOR_IS_OPAQUE(last.args.pattern.color)) =>
        LET collapsed == last.out.sub.sblend = "DSBF_ONE"
                         /\ last.out.sub.dblend = "DSBF_ZERO"
        IN  /\ InstalledFactors \cap {"DSBF_SRCALPHA", "DSBF_INVSRCALPHA"} = {}
            /\ InstalledFlags = {"DSDRAW_NOFX"} <=> collapsed
            /\ last.args.op = "OVER" =>
                  collapsed /\ InstalledFlags = {"DSDRAW_NOFX"}

\* C10: a solid fill of a rectangle with integer device corners, operator
\* source and an opaque color whose channels are 0 or full issues exactly
\* one FillRectangle, with rect (x1, y1, x2-x1, y2-y1), preceded by SetColor
\* with the channels as bytes 0 or 255 and alpha 255, and by the drawing flag
\* no-effect; for (10,10)-(50,40) and red: rect (10,10,40,30) and color
\* (255,0,0,255).
Byte(short) == IF short = 65535 THEN 255 ELSE 0

IntegerBox(box) ==
    \A f \in {box.p1x, box.p1y, box.p2x, box.p2y} : f % 256 = 0

PlainColor(color) ==
    /\ color.alpha_short = 65535
    /\ \A c \in {color.red_short, color.green_short, color.blue_short} :
          c \in {0, 65535}

SolidSourceFill ==
    /\ IsFill
    /\ last.out.step = "solid"
    /\ last.args.op = "SOURCE"
    /\ last.args.path.kind = "rectangle"
    /\ IntegerBox(last.args.path.box)
    /\ PlainColor(last.args.pattern.color)

C10_RectangleFillRoundTrip ==
    SolidSourceFill =>
        LET box == last.args.path.box
            color == last.args.pattern.color
            rect == [x |-> box.p1x \div 256, y |-> box.p1y \div 256,
                     w |-> (box.p2x - box.p1x) \div 256,
                     h |-> (box.p2y - box.p1y) \div 256]
            bytes == [r |-> Byte(color.red_short), g |-> Byte(color.green_short),
                      b |-> Byte(color.blue_short), a |-> 255]
        IN  /\ Cardinality(LastCalls("FillRectangle")) = 1
            /\ \A i \in LastCalls("FillRectangle") :
                  /\ last.calls[i].a = rect
                  /\ \E j \in LastCalls("SetColor") :
                        j < i /\ last.calls[j].a = bytes
                  /\ \E j \in LastCalls("SetDrawingFlags") : j < i
            /\ InstalledFlags = {"DSDRAW_NOFX"}
            /\ (box = Rect10.box /\ color = Color(65535, 0, 0, 65535)) =>
                  \E i \in LastCalls("FillRectangle"), j \in LastCalls("SetColor") :
                      /\ last.calls[i].a = [x |-> 10, y |-> 10, w |-> 40, h |-> 30]
                      /\ last.calls[j].a = [r |-> 255, g |-> 0, b |-> 0, a |-> 255]

\* the fill of (10,10)-(50,40) with operator source and opaque red, drawn
C10_Witness ==
    /\ SolidSourceFill
    /\ last.args.path = Rect10
    /\ last.args.pattern.color = Color(65535, 0, 0, 65535)
    /\ LastCalls("FillRectangle") # {}

\* C11: for every supported operator a fill with a solid pattern and a path
\* that is not an axis-aligned rectangle is declined by the solid sub-step
\* before any drawing-flag, blend-function, SetColor or FillRectangle call,
\* and the fill is delegated to the software fallback.
SolidState ==
    {"SetDrawingFlags", "SetSrcBlendFunction", "SetDstBlendFunction",
     "SetColor", "FillRectangle"}

SolidOnOtherPath ==
    /\ IsFill
    /\ last.out.step = "solid"
    /\ last.args.path.kind # "rectangle"

C11_SolidNonRectangleDeclined ==
    SolidOnOtherPath =>
        /\ last.out.native = "UNSUPPORTED"
        /\ CallNames(last.calls) \cap SolidState = {}
        /\ last.out.fallback = <<last.args>>

\* a solid fill of a path that is no rectangle with operator dest-atop,
\* handed to the fallback
C11_Witness ==
    /\ SolidOnOtherPath
    /\ last.args.op = "DEST_ATOP"
    /\ Len(last.out.fallback) = 1

\* C12: a fill with an image pattern whose extend mode is reflect or pad
\* yields 'unsupported' from the image sub-step, so the fallback is invoked,
\* and creates no temporary surface, uploads nothing (Write) and issues no
\* Blit or TileBlit.
C12_ReflectPadUnsupported ==
    (/\ IsFill
     /\ last.out.step = "surface"
     /\ last.args.pattern.extend \in {"CAIRO_EXTEND_REFLECT", "CAIRO_EXTEND_PAD"})
        => /\ last.out.native = "UNSUPPORTED"
           /\ Len(last.out.fallback) = 1
           /\ CallNames(last.calls)
                  \cap {"CreateSurface", "Write", "Blit", "TileBlit"} = {}

\* C13: a fill with a supported operator and a linear, radial, mesh or
\* raster-source pattern is treated as 'unsupported': no native draw is
\* issued and the software fallback is invoked with the original arguments.
C13_OtherPatternsFallBack ==
    (/\ IsFill
     /\ last.out.step = "todo"
     /\ last.args.op \in SupportedOperators)
        => /\ CallNames(last.calls) \cap NativeDraws = {}
           /\ last.out.native = "UNSUPPORTED"
           /\ last.out.fallback = <<last.args>>

\* C14: create_similar with width <= 0 or height <= 0 returns a plain
\* software image surface and never calls CreateSurface, for every content
\* and every state of the source adapter.
C14_NonPositiveSizeIsSoftware ==
    (/\ last.op = "create_similar"
     /\ last.args.width <= 0 \/ last.args.height <= 0)
        => /\ last.out.kind = "image"
           /\ last.out.content = last.args.content
           /\ last.calls = <<>>
           /\ ds = last.pre.ds
           /\ hw = last.pre.hw

\* create_similar with a positive width and height -5 on a MAPPED adapter
C14_Witness ==
    /\ last.op = "create_similar"
    /\ last.args.width > 0
    /\ last.args.height = -5
    /\ Mapped(last.pre.ds)
    /\ last.out.kind = "image"

\* C15: operator_supported is true exactly for clear, source, over, in, out,
\* atop, dest, dest-over, dest-in, dest-out, dest-atop, xor and add; for
\* every other operator the blend pair lookup signals unsupported and the
\* Porter-Duff rule is none; for every supported operator both resolve.
PorterDuffOperators ==
    {"CLEAR", "SOURCE", "OVER", "IN", "OUT", "ATOP", "DEST", "DEST_OVER",
     "DEST_IN", "DEST_OUT", "DEST_ATOP", "XOR", "ADD"}

IsLookup == last.op = "lookup"

C15_TablesAgreeOnDomain ==
    IsLookup =>
        IF last.args.operator \in PorterDuffOperators
        THEN /\ last.out.supported
             /\ last.out.blend.ok
             /\ last.out.rule # "DSPD_NONE"
        ELSE /\ ~last.out.supported
             /\ ~last.out.blend.ok
             /\ last.out.rule = "DSPD_NONE"

\* the lookup of saturate, which no table resolves
C15_Witness ==
    /\ IsLookup
    /\ last.args.operator = "SATURATE"
    /\ ~last.out.supported
    /\ last.out.rule = "DSPD_NONE"

\* C16: for every supported operator the blend pair and the Porter-Duff
\* rule are the standard ones and name the same composite.
PorterDuff(s, d, rule) == [srcblend |-> s, dstblend |-> d, rule |-> rule]

StandardComposite(operator) ==
    CASE operator = "CLEAR"     -> PorterDuff("DSBF_ZERO", "DSBF_ZERO", "DSPD_CLEAR")
      [] operator = "SOURCE"    -> PorterDuff("DSBF_ONE", "DSBF_ZERO", "DSPD_SRC")
      [] operator = "OVER"      -> PorterDuff("DSBF_ONE", "DSBF_INVSRCALPHA", "DSPD_SRC_OVER")
      [] operator = "IN"        -> PorterDuff("DSBF_DESTALPHA", "DSBF_ZERO", "DSPD_SRC_IN")
      [] operator = "OUT"       -> PorterDuff("DSBF_INVDESTALPHA", "DSBF_ZERO", "DSPD_SRC_OUT")
      [] operator = "ATOP"      -> PorterDuff("DSBF_DESTALPHA", "DSBF_INVSRCALPHA", "DSPD_SRC_ATOP")
      [] operator = "DEST"      -> PorterDuff("DSBF_ZERO", "DSBF_ONE", "DSPD_DST")
      [] operator = "DEST_OVER" -> PorterDuff("DSBF_INVDESTALPHA", "DSBF_ONE", "DSPD_DST_OVER")
      [] operator = "DEST_IN"   -> PorterDuff("DSBF_ZERO", "DSBF_SRCALPHA", "DSPD_DST_IN")
      [] operator = "DEST_OUT"  -> PorterDuff("DSBF_ZERO", "DSBF_INVSRCALPHA", "DSPD_DST_OUT")
      [] operator = "DEST_ATOP" -> PorterDuff("DSBF_INVDESTALPHA", "DSBF_SRCALPHA", "DSPD_DST_ATOP")
      [] operator = "XOR"       -> PorterDuff("DSBF_INVDESTALPHA", "DSBF_INVSRCALPHA", "DSPD_XOR")
      [] operator = "ADD"       -> PorterDuff("DSBF_ONE", "DSBF_ONE", "DSPD_ADD")

C16_StandardPorterDuff ==
    (IsLookup /\ last.args.operator \in PorterDuffOperators) =>
        LET standard == StandardComposite(last.args.operator)
        IN  /\ last.out.blend.ok
            /\ last.out.blend.srcblend = standard.srcblend
            /\ last.out.blend.dstblend = standard.dstblend
            /\ last.out.rule = standard.rule

\* the lookup of over: (ONE, INV_SRC_ALPHA) and SRC_OVER
C16_Witness ==
    /\ IsLookup
    /\ last.args.operator = "OVER"
    /\ last.out.blend.dstblend = "DSBF_INVSRCALPHA"
    /\ last.out.rule = "DSPD_SRC_OVER"

\* C17: if the hardware clip call made by fill fails, fill returns a device
\* error (neither success nor 'unsupported'), issues no draw call and does
\* not invoke the software fallback.
C17_ClipFailureIsDeviceError ==
    (IsFill /\ last.out.step = "clip")
        => /\ last.ret \notin {"SUCCESS", "UNSUPPORTED"}
           /\ CallNames(last.calls) \cap NativeDraws = {}
           /\ last.out.fallback = <<>>

\* C18: create on a hardware buffer whose device format has no canonical,
\* fallback-addressable equivalent returns a surface in error with status
\* invalid-format and takes no reference on the hardware handle.
Addressable(format) ==
    format \in {"DSPF_ARGB1555", "DSPF_RGB16", "DSPF_RGB24", "DSPF_RGB32",
                "DSPF_ARGB", "DSPF_A8", "DSPF_RGB332", "DSPF_ARGB4444",
                "DSPF_A4", "DSPF_RGB444", "DSPF_RGB555", "DSPF_BGR555"}

C18_InvalidFormatTakesNoReference ==
    (last.op = "create" /\ ~Addressable(last.pre.hw.format))
        => /\ last.ret = "INVALID_FORMAT"
           /\ life = "error"
           /\ LastCalls("AddRef") = {}
           /\ hw = last.pre.hw
           /\ hw.refs = 1

\* create on a surface of a palette format
C18_Witness ==
    /\ last.op = "create"
    /\ last.pre.hw.format = "DSPF_LUT8"
    /\ last.ret = "INVALID_FORMAT"

\* C19: the clipped flag is true only if the most recent hardware clip call
\* was a successful installation of a clip rectangle that has not been
\* cleared since: it is false at construction, a failed SetClip never leaves
\* it true, and while it is true a clip rectangle is installed.
C19_ClippedMeansInstalled ==
    /\ last.op = "create" => ~ds.clipped
    /\ (IsFill /\ last.out.step = "clip") => ~ds.clipped
    /\ ds.clipped => hw.clip # <<>>

\* C20: unmap_image never unlocks the hardware buffer, so after map_to_image
\* and unmap_image the adapter is still MAPPED and the buffer lock-held; an
\* Unlock is issued only by a write-back flush, or by a map_to_image that
\* failed after locking.
C20_UnlockOnlyByFlush ==
    /\ last.op = "unmap_image" =>
          /\ last.calls = <<>>
          /\ ds = last.pre.ds
          /\ hw = last.pre.hw
    /\ "Unlock" \in CallNames(last.calls) =>
          \/ last.op = "flush" /\ last.args.flags = 0
          \/ last.op = "map_to_image" /\ last.ret # "SUCCESS"

\* the only image handed out has been given back: still MAPPED, still locked
C20_Witness ==
    /\ last.op = "unmap_image"
    /\ outstanding = 0
    /\ Mapped(ds)
    /\ hw.locks = 1

\* C21: every temporary hardware surface an image-pattern fill creates is
\* released exactly once before the fill returns, whatever follows its
\* creation (blit, tile blit, or neither), and nothing touches it after the
\* release.
TemporaryCreated ==
    /\ IsFill
    /\ last.out.step = "surface"
    /\ last.out.sub.created = 1

C21_TemporaryReleasedOnce ==
    (IsFill /\ last.out.step = "surface") =>
        LET released == CallsOf(last.calls, "Release", "buffer")
            created == CallsOf(last.calls, "CreateSurface", "dfb")
        IN  /\ Cardinality(released) = last.out.sub.created
            /\ \A i \in released :
                  /\ \E c \in created : c < i
                  /\ \A j \in (i + 1)..Len(last.calls) :
                        last.calls[j].h # "buffer"

\* an image fill with extend reflect: the surface is created and written,
\* no blit follows, and it is released
C21_Witness ==
    /\ TemporaryCreated
    /\ last.args.pattern.extend = "CAIRO_EXTEND_REFLECT"
    /\ CallNames(last.calls) \cap NativeDraws = {}
    /\ "Release" \in CallNames(last.calls)

\* C22: an image-pattern fill whose source image has zero area or carries an
\* alpha channel is 'unsupported': no temporary surface is created, no
\* upload or blit is issued, and the fill goes to the software fallback.
C22_ZeroAreaOrAlphaUnsupported ==
    (/\ IsFill
     /\ last.out.step = "surface"
     /\ last.args.pattern.surface.type = "CAIRO_SURFACE_TYPE_IMAGE"
     /\ \/ last.args.pattern.surface.width * last.args.pattern.surface.height = 0
        \/ last.args.pattern.surface.format = "CAIRO_FORMAT_ARGB32")
        => /\ last.out.native = "UNSUPPORTED"
           /\ CallNames(last.calls)
                  \cap {"CreateSurface", "Write", "Blit", "TileBlit"} = {}
           /\ last.out.fallback = <<last.args>>

\* C23: each channel byte passed to SetColor is the 16-bit channel scaled to
\* 8 bits (its most significant byte); a half-intensity channel gives 128,
\* never 0.  The shorts of a color are its premultiplied channels, which are
\* also the unpremultiplied ones when the color is opaque.
ScaledByte(short) == short \div 256

C23_ColorBytesScaled ==
    (/\ SolidDrawn
     /\ \/ last.pre.ds.blit_premultiplied
        \/ COLOR_IS_OPAQUE(last.args.pattern.color))
        => \A i \in LastCalls("SetColor") :
              LET color == last.args.pattern.color
              IN  last.calls[i].a =
                      [r |-> ScaledByte(color.red_short),
                       g |-> ScaledByte(color.green_short),
                       b |-> ScaledByte(color.blue_short),
                       a |-> ScaledByte(color.alpha_short)]

\* C24: create_similar with positive width and height requests the
\* premultiplied capability for the new hardware buffer if and only if the
\* source adapter's premultiplied flag is set.
C24_SimilarKeepsPremultiplication ==
    (/\ last.op = "create_similar"
     /\ last.args.width > 0
     /\ last.args.height > 0)
        => \A i \in CallsOf(last.calls, "CreateSurface", "dfb") :
              last.calls[i].a.caps_premultiplied
                  = last.pre.ds.blit_premultiplied

\* C25: when a fill issues a native draw call, the clip installed on the
\* hardware surface is the one derived from that call's clip argument: none
\* for no clip, the bounding rectangle of the region otherwise; a clip
\* rectangle an earlier fill installed never governs the draw.  For a region
\* that excludes everything, no clip at all is accepted here as well.
ClipOf(clip) ==
    IF clip.kind = "NULL" THEN <<>>
    ELSE <<[x1 |-> clip.extents.x, y1 |-> clip.extents.y,
            x2 |-> clip.extents.x + clip.extents.width,
            y2 |-> clip.extents.y + clip.extents.height]>>

C25_DrawUnderOwnClip ==
    (IsFill /\ CallNames(last.calls) \cap NativeDraws # {})
        => \/ hw.clip = ClipOf(last.args.clip)
           \/ /\ last.args.clip.kind # "NULL"
              /\ cairo_clip_is_all_clipped(last.args.clip)
              /\ hw.clip = <<>>

\* C26: in an image-pattern fill every source image acquired through the
\* acquire service is released exactly once before the fill returns.
C26_AcquireMatchedByRelease ==
    (IsFill /\ last.out.step = "surface")
        => last.out.sub.released = last.out.sub.acquired

====
